---- MODULE Spec2Model ----
(***************************************************************************)
(* A model of polloeskadroona_updater (src/main.go): the manifest builder  *)
(* createRepo, the reconciler updateFiles, the manifest loader             *)
(* getRepositoryContent, the path check HasValidPath and the hasher        *)
(* calculateHash.                                                          *)
(*                                                                         *)
(* Strings are sequences of one-character strings, so that strings.Split,  *)
(* strings.Contains, path.Clean, filepath.Join and filepath.Abs are        *)
(* computed the way the library computes them.  The file system is a tree  *)
(* of absolute paths, each a sequence of segments.                         *)
(***************************************************************************)
EXTENDS Integers, Sequences, FiniteSets, TLC

(***************************************************************************)
(* Strings and paths                                                       *)
(***************************************************************************)
Slash == "/"
Dot == <<".">>
DotDot == <<".", ".">>
EmptyStr == <<>>

\* strings.Split(s, "/"): the segments between slashes, empty ones kept.
RECURSIVE SplitFrom(_, _, _)
SplitFrom(s, k, cur) ==
    IF k > Len(s) THEN <<cur>>
    ELSE IF s[k] = Slash THEN <<cur>> \o SplitFrom(s, k + 1, EmptyStr)
    ELSE SplitFrom(s, k + 1, Append(cur, s[k]))

Split(s) == SplitFrom(s, 1, EmptyStr)

\* strings.Join(segs, "/")
RECURSIVE JoinSlash(_)
JoinSlash(segs) ==
    IF Len(segs) = 0 THEN EmptyStr
    ELSE IF Len(segs) = 1 THEN segs[1]
    ELSE segs[1] \o <<Slash>> \o JoinSlash(Tail(segs))

IsAbs(s) == Len(s) > 0 /\ s[1] = Slash

\* The element stack path.Clean builds: "" and "." are dropped, ".." removes
\* the element before it, stays in front of a relative path and is dropped at
\* the root.
RECURSIVE CleanStack(_, _, _)
CleanStack(segs, stack, rooted) ==
    IF Len(segs) = 0 THEN stack
    ELSE LET e == Head(segs)
             rest == Tail(segs)
         IN  IF e = EmptyStr \/ e = Dot THEN CleanStack(rest, stack, rooted)
             ELSE IF e = DotDot
                  THEN IF Len(stack) > 0 /\ stack[Len(stack)] # DotDot
                       THEN CleanStack(rest, SubSeq(stack, 1, Len(stack) - 1), rooted)
                       ELSE IF rooted THEN CleanStack(rest, stack, rooted)
                       ELSE CleanStack(rest, Append(stack, e), rooted)
                  ELSE CleanStack(rest, Append(stack, e), rooted)

\* path.Clean / filepath.Clean (the separator is "/")
Clean(s) ==
    LET st == CleanStack(Split(s), <<>>, IsAbs(s))
    IN  IF IsAbs(s) THEN <<Slash>> \o JoinSlash(st)
        ELSE IF Len(st) = 0 THEN Dot
        ELSE JoinSlash(st)

\* filepath.Join(a, b): the non-empty elements joined and cleaned.
Join(a, b) ==
    IF a = EmptyStr /\ b = EmptyStr THEN EmptyStr
    ELSE IF a = EmptyStr THEN Clean(b)
    ELSE IF b = EmptyStr THEN Clean(a)
    ELSE Clean(a \o <<Slash>> \o b)

\* strings.Contains(s, sub)
Contains(s, sub) ==
    \E k \in 0..(Len(s) - Len(sub)) : SubSeq(s, k + 1, k + Len(sub)) = sub

\* filepath.Dir(s): everything before the last slash, cleaned.
RECURSIVE LastSlash(_, _)
LastSlash(s, k) == IF k = 0 THEN 0 ELSE IF s[k] = Slash THEN k ELSE LastSlash(s, k - 1)

Dir(s) == Clean(SubSeq(s, 1, LastSlash(s, Len(s))))

\* filepath.ToSlash: the separator already is "/".
ToSlash(s) == s

\* Byte-wise string order, the order in which ioutil.ReadDir and filepath.Walk
\* sort the names of a directory.
CharRank(c) ==
    CASE c = "." -> 1 [] c = "/" -> 2 [] c = "2" -> 3 [] c = "R" -> 4
      [] c = "X" -> 5 [] c = "a" -> 6 [] c = "b" -> 7 [] c = "m" -> 8
      [] c = "o" -> 9 [] c = "v" -> 10 [] c = "w" -> 11 [] c = "x" -> 12
      [] OTHER -> 13

RECURSIVE StrLess(_, _)
StrLess(a, b) ==
    IF Len(b) = 0 THEN FALSE
    ELSE IF Len(a) = 0 THEN TRUE
    ELSE IF a[1] # b[1] THEN CharRank(a[1]) < CharRank(b[1])
    ELSE StrLess(Tail(a), Tail(b))

\* The order of a depth-first walk with sorted directories, on absolute paths.
RECURSIVE PathLess(_, _)
PathLess(p, q) ==
    IF Len(q) = 0 THEN FALSE
    ELSE IF Len(p) = 0 THEN TRUE
    ELSE IF p[1] # q[1] THEN StrLess(p[1], q[1])
    ELSE PathLess(Tail(p), Tail(q))

RECURSIVE SortPaths(_)
SortPaths(S) ==
    IF S = {} THEN <<>>
    ELSE LET least == CHOOSE p \in S : \A q \in S \ {p} : PathLess(p, q)
         IN  <<least>> \o SortPaths(S \ {least})

(***************************************************************************)
(* The file system: `files` maps the absolute path of each regular file to *)
(* its bytes, `dirs` is the set of directories, `denied` the files the     *)
(* process may not open.  An absolute path is its sequence of segments.    *)
(***************************************************************************)
VARIABLES files, dirs, denied

fsVars == <<files, dirs, denied>>

Root == <<>>
\* os.Getwd(): the process runs in /w.
Cwd == <<"/", "w">>
CwdPath == <<<<"w">>>>

IsPrefix(p, q) == Len(p) <= Len(q) /\ SubSeq(q, 1, Len(p)) = p

\* Path resolution as the kernel does it: segment by segment from the root or
\* the working directory, every directory crossed has to exist.
RECURSIVE ResolveFrom(_, _, _, _)
ResolveFrom(segs, cur, fs, ds) ==
    IF Len(segs) = 0 THEN [st |-> "ok", path |-> cur]
    ELSE IF cur \in DOMAIN fs THEN [st |-> "notdir", path |-> cur]
    ELSE IF cur \notin ds THEN [st |-> "noent", path |-> cur]
    ELSE LET e == Head(segs)
         IN  IF e = EmptyStr \/ e = Dot THEN ResolveFrom(Tail(segs), cur, fs, ds)
             ELSE IF e = DotDot
                  THEN ResolveFrom(Tail(segs),
                                   IF Len(cur) = 0 THEN cur ELSE SubSeq(cur, 1, Len(cur) - 1),
                                   fs, ds)
                  ELSE ResolveFrom(Tail(segs), Append(cur, e), fs, ds)

Resolve(name, fs, ds) ==
    IF name = EmptyStr THEN [st |-> "noent", path |-> CwdPath]
    ELSE ResolveFrom(Split(name), IF IsAbs(name) THEN Root ELSE CwdPath, fs, ds)

\* os.Open(name): "ok" (a regular file), "dir" (a directory opens too),
\* "noent" (os.IsNotExist), "notdir" or "perm" (any other error).
OsOpen(name, fs, ds, dn) ==
    LET r == Resolve(name, fs, ds)
    IN  IF r.st # "ok" THEN r
        ELSE IF r.path \in DOMAIN fs
             THEN IF r.path \in dn THEN [st |-> "perm", path |-> r.path] ELSE r
        ELSE IF r.path \in ds THEN [st |-> "dir", path |-> r.path]
        ELSE [st |-> "noent", path |-> r.path]

\* os.Stat(name) followed by os.IsNotExist(err)
StatNotExist(name, fs, ds) ==
    LET r == Resolve(name, fs, ds)
    IN  r.st = "noent" \/ (r.st = "ok" /\ r.path \notin DOMAIN fs /\ r.path \notin ds)

\* The path filepath.Walk hands to its callback for the file at absolute path
\* p below the root it was started on: filepath.Join(path, name) at each level.
RECURSIVE WalkPath(_, _)
WalkPath(at, rel) ==
    IF Len(rel) = 0 THEN at ELSE WalkPath(Join(at, Head(rel)), Tail(rel))

\* filepath.Walk(root, fn): the paths of the regular files fn is called on, in
\* the order of the walk.  A root that is a regular file is visited as it is.
WalkFiles(root, fs, ds) ==
    LET r == Resolve(root, fs, ds)
    IN  IF r.st # "ok" THEN <<>>
        ELSE IF r.path \in DOMAIN fs THEN <<root>>
        ELSE LET below == {p \in DOMAIN fs : IsPrefix(r.path, p)}
                 sorted == SortPaths(below)
             IN  [k \in 1..Len(sorted) |->
                    WalkPath(root, SubSeq(sorted[k], Len(r.path) + 1, Len(sorted[k])))]

\* The file a path names, for the operations that act on an existing file.
Target(name, fs, ds) == Resolve(name, fs, ds).path

Without(fs, p) == [q \in DOMAIN fs \ {p} |-> fs[q]]

WithFile(fs, p, bytes) == [q \in DOMAIN fs \cup {p} |-> IF q = p THEN bytes ELSE fs[q]]

\* The directories os.MkdirAll(dir) has to find or make: every prefix of the
\* resolved path.
Prefixes(p) == {SubSeq(p, 1, k) : k \in 0..Len(p)}

AbsPath(name) == CleanStack(Split(IF IsAbs(name) THEN name ELSE Cwd \o <<Slash>> \o name), <<>>, TRUE)

(***************************************************************************)
(* calculateHash                                                           *)
(***************************************************************************)
\* len(data): the read buffer, 1024*1024 bytes in the program, scaled down.
ChunkSize == 2

Min(a, b) == IF a <= b THEN a ELSE b

\* make([]byte, n): n zero bytes
ZeroBuffer == [k \in 1..ChunkSize |-> 0]

\* f.Read(data) returning n bytes at offset pos: the first n bytes of the
\* buffer are overwritten, the rest keeps what an earlier read left there.
ReadInto(data, content, pos, n) ==
    [k \in 1..Len(data) |-> IF k <= n THEN content[pos + k] ELSE data[k]]

\* hash.Write(data): the whole buffer goes to the digest, whatever n was.
HashWrite(fed, data) == fed \o data

\* hex.EncodeToString(sha1.Sum): one digest per input, taken as free of
\* collisions; the digest of an input is represented by that input.
Sha1Hex(fed) == <<"sha1", fed>>

\* The loop of calculateHash on a regular file whose reads fill the buffer
\* as far as the file has bytes.
RECURSIVE HashLoop(_, _, _, _)
HashLoop(content, pos, data, fed) ==
    IF pos >= Len(content) THEN fed
    ELSE LET n == Min(Len(data), Len(content) - pos)
             filled == ReadInto(data, content, pos, n)
         IN  HashLoop(content, pos + n, filled, HashWrite(fed, filled))

calculateHash(content) == Sha1Hex(HashLoop(content, 0, ZeroBuffer, <<>>))

\* A slip: the verification is left out.
CheckHashSkipped(rf, content) == TRUE

\* repositoryFile.CheckHash
CheckHash(rf, content) == calculateHash(content) = rf.Hash

\* calculateHash as a process of its own, read by read.
VARIABLES
    hfile,      \* the bytes of the file f
    hpos,       \* the offset of f
    hdata,      \* data, the buffer
    hfed,       \* the bytes hash.Write was given so far
    hpc         \* "idle", "loop", "write" (a failed read is to be written) or "done"

hashVars == <<hfile, hpos, hdata, hfed, hpc>>

(***************************************************************************)
(* The inputs: file names, file contents, manifests                        *)
(***************************************************************************)
\* The most entries a manifest holds.
MaxEntries == 2

Content1 == <<1>>
Content2 == <<2>>
Contents == {Content1, Content2}
\* In the description of a tree: no file at this path.
Absent == <<-1>>

NameA == <<"m", "/", "a">>
NameDotA == <<".", "/", "m", "/", "a">>
NameB == <<"m", "/", "b">>
NameSibling == <<".", ".", "/", "w", "2", "/", "x">>
NameOutside == <<".", ".", "/", "v", "/", "x">>
NameUpA == <<".", ".", "/", "w", "/", "m", "/", "a">>
NameO == <<"m", "/", "o">>
Names == {NameA, NameDotA, NameB, NameSibling, NameOutside, NameUpA}

PathA == <<<<"w">>, <<"m">>, <<"a">>>>
PathB == <<<<"w">>, <<"m">>, <<"b">>>>
PathO == <<<<"w">>, <<"m">>, <<"o">>>>
PathSibling == <<<<"w", "2">>, <<"x">>>>

\* The entries [path, hash] a manifest is made of.
Entries ==
    {<<n, calculateHash(Content1)>> : n \in Names} \cup {<<NameA, calculateHash(Content2)>>}

SeqsUpTo(S, n) == UNION {[1..k -> S] : k \in 0..n}

\* The trees a run may start on.
InitialTrees ==
    {t \in [{PathA, PathO, PathSibling} -> Contents \cup {Absent}] :
        /\ t[PathO] # Content2
        /\ t[PathSibling] = Content1}

TreeFiles(t) == [p \in {q \in DOMAIN t : t[q] # Absent} |-> t[p]]

TreeDirs(fs) ==
    {Root, CwdPath, <<<<"w", "2">>>>, <<<<"v">>>>}
        \cup UNION {Prefixes(SubSeq(p, 1, Len(p) - 1)) : p \in DOMAIN fs}

(***************************************************************************)
(* The manifest on the wire                                                *)
(***************************************************************************)
\* newRepo.DownloadRoot, and the zero value of a string
RepoRoot == "https://koti.kapsi.fi/darkon/polloeskadroona/repo/"
NoRoot == ""

\* A payload is what the server sends for repoURL.  kind "syntax": not JSON;
\* "nonobject": JSON, but not an object; "object": an object whose Files
\* member is the given array, and whose DownloadRoot member is a string or
\* (rootIsString = FALSE) a number.
ObjectPayload(root, entries) ==
    [kind |-> "object", rootIsString |-> TRUE, DownloadRoot |-> root, Files |-> entries]

BadPayloads ==
    {[kind |-> k, rootIsString |-> TRUE, DownloadRoot |-> RepoRoot, Files |-> <<>>] :
        k \in {"syntax", "nonobject"}}
    \cup {[kind |-> "object", rootIsString |-> FALSE, DownloadRoot |-> RepoRoot, Files |-> m] :
            m \in SeqsUpTo(Entries, 1)}

Manifests == {ObjectPayload(RepoRoot, m) : m \in SeqsUpTo(Entries, MaxEntries)}

\* json.Unmarshal(repositoryBytes, &data), its error dropped: data stays the
\* zero repository{} unless the payload is an object; a member of the wrong
\* type is skipped and the other members are still decoded.
JsonUnmarshal(p) ==
    IF p.kind # "object" THEN [DownloadRoot |-> NoRoot, Files |-> <<>>]
    ELSE [DownloadRoot |-> IF p.rootIsString THEN p.DownloadRoot ELSE NoRoot,
          Files |-> p.Files]

\* A slip: the loop ends at the first entry that has not two items (`break`
\* for `continue`).
RECURSIVE ParseEntriesBreak(_)
ParseEntriesBreak(entries) ==
    IF Len(entries) = 0 \/ Len(Head(entries)) # 2 THEN <<>>
    ELSE <<[Name |-> Head(entries)[1], Hash |-> Head(entries)[2]]>>
             \o ParseEntriesBreak(Tail(entries))

\* The loop of getRepositoryContent: entries of two items become
\* repositoryFile{Name, Hash}, the others are skipped.
RECURSIVE ParseEntries(_)
ParseEntries(entries) ==
    IF Len(entries) = 0 THEN <<>>
    ELSE LET entry == Head(entries)
         IN  IF Len(entry) # 2 THEN ParseEntries(Tail(entries))
             ELSE <<[Name |-> entry[1], Hash |-> entry[2]]>> \o ParseEntries(Tail(entries))

\* A string as json.Marshal writes it and json.Unmarshal reads it back: a
\* byte that is not valid UTF-8 ("X") comes back as U+FFFD ("R").
JsonString(s) == [k \in 1..Len(s) |-> IF s[k] = "X" THEN "R" ELSE s[k]]

\* json.Marshal(newRepo)
JsonMarshal(repo) ==
    ObjectPayload(repo.DownloadRoot,
                  [k \in 1..Len(repo.Files) |->
                      <<JsonString(repo.Files[k][1]), repo.Files[k][2]>>])

(***************************************************************************)
(* The program                                                             *)
(***************************************************************************)
VARIABLES
    pc,                     \* where the process is
    run,                    \* 1 for the first run of the updater, 2 for the second
    directoryName,          \* -createRepo, empty when the flag is not given
    payload,                \* what the server answers for repoURL
    downloadRoot, listOfRepositoryFiles,
    downloadFiles, directoriesToPrune, downloadErrors,
    ci, pi, di,             \* the positions of the three loops of updateFiles
    walk,                   \* the files filepath.Walk has yet to visit
    walkFailed,             \* the paths at which a walk's callback returned an error
    out,                    \* the status and "Downloading" lines printed so far
    began,                  \* the file system when the run began
    earlier,                \* what the first run ended with, during the second
    newRepo, output         \* createRepo's manifest and the file it wrote

progVars ==
    <<pc, run, directoryName, payload, downloadRoot, listOfRepositoryFiles,
      downloadFiles, directoriesToPrune, downloadErrors, ci, pi, di, walk,
      walkFailed, out, began, earlier, newRepo, output>>

\* The source exists in two revisions that differ in the loops of
\* updateFiles and in createRepo: main.go and the older part_000.
MainGo == "main.go"
Part000 == "part_000"

VARIABLES
    variant,                \* the revision that runs
    handles,                \* the files and response bodies open and not yet closed
    received                \* the body the last download request was answered with

buildVars == <<variant, handles, received>>

\* An open handle: the file or body opened in iteration `index` of `loop`.
Handle(kind, loop, index) == [kind |-> kind, loop |-> loop, index |-> index]

NoOutput == [kind |-> "none"]
NoEarlier == [errors |-> -1, walkFailed |-> {}, directoryName |-> EmptyStr]

\* repositoryFile.HasValidPath; filepath.Abs joins a relative name to the
\* working directory and cleans the result.
Abs(name) == IF IsAbs(name) THEN Clean(name) ELSE Join(Cwd, name)

HasValidPath(rf) == Contains(Clean(Abs(rf.Name)), Cwd)

\* stringInSlice
stringInSlice(a, list) == \E k \in 1..Len(list) : list[k] = a

\* main: the flags decide between updateFiles and createRepo.
Main ==
    /\ pc = "main"
    /\ pc' = IF Len(directoryName) = 0 THEN "fetch" ELSE "createRepo"
    /\ UNCHANGED <<run, directoryName, payload, downloadRoot, listOfRepositoryFiles,
                   downloadFiles, directoriesToPrune, downloadErrors, ci, pi, di,
                   walk, walkFailed, out, began, earlier, newRepo, output>>
    /\ UNCHANGED fsVars
    /\ UNCHANGED hashVars
    /\ UNCHANGED buildVars

\* getRepositoryContent's result for what http.Get and ioutil.ReadAll gave.
RepositoryContent(net, p) ==
    IF net # "ok" THEN [root |-> NoRoot, files |-> <<>>]
    ELSE LET data == JsonUnmarshal(p)
         IN  [root |-> data.DownloadRoot, files |-> ParseEntries(data.Files)]

\* updateFiles up to its first loop: no repository files, no run.
GetRepositoryContent ==
    /\ pc = "fetch"
    /\ \E net \in {"connectionError", "status", "readError", "ok"} :
          LET got == RepositoryContent(net, payload)
          IN  /\ downloadRoot' = got.root
              /\ listOfRepositoryFiles' = got.files
              /\ pc' = IF got.files = <<>> THEN "returned" ELSE "classify"
              /\ handles' = IF net = "connectionError" THEN handles
                            ELSE handles \cup {Handle("body", "fetch", 1)}
    /\ downloadFiles' = <<>>
    /\ directoriesToPrune' = <<>>
    /\ downloadErrors' = 0
    /\ ci' = 1
    /\ UNCHANGED <<run, directoryName, payload, pi, di, walk, walkFailed, out,
                   began, earlier, newRepo, output>>
    /\ UNCHANGED fsVars
    /\ UNCHANGED hashVars
    /\ UNCHANGED <<variant, received>>

\* What the first loop of updateFiles does with one entry whose path is valid:
\* the status it prints and whether the entry joins downloadFiles.  A
\* directory opens like a file; reading it fails on every call with an error
\* that is not io.EOF, and calculateHash never leaves its loop.
\* main.go tells os.IsNotExist from the other errors of os.Open; part_000
\* lists the entry for download on any error.  `held` says whether the file
\* is still open when the iteration ends: existingFile.Close() in main.go,
\* `defer f.Close()` in part_000, which runs when updateFiles returns.
Classification(rf, fs, ds, dn) ==
    LET opened == OsOpen(rf.Name, fs, ds, dn)
    IN  IF opened.st = "noent" THEN [text |-> "Download", download |-> TRUE, held |-> FALSE]
        ELSE IF opened.st = "dir"
             THEN [text |-> "(no return)", download |-> FALSE, held |-> TRUE]
        ELSE IF opened.st # "ok"
             THEN IF variant = MainGo
                  THEN [text |-> "Skip", download |-> FALSE, held |-> FALSE]
                  ELSE [text |-> "Download", download |-> TRUE, held |-> FALSE]
        ELSE IF CheckHash(rf, fs[opened.path])
             THEN [text |-> "OK", download |-> FALSE, held |-> variant # MainGo]
        ELSE [text |-> "Download (Changed)", download |-> TRUE, held |-> variant # MainGo]

\* The directory an entry adds to directoriesToPrune: the text before the
\* first slash of its name.
PruneDirOf(rf) == Split(rf.Name)[1]

StatusLine(name, text) == [line |-> "status", name |-> name, text |-> text]
DownloadLine(name, text) == [line |-> "download", name |-> name, text |-> text]

\* One iteration of "check existing files and their checksum".
Classify ==
    /\ pc = "classify"
    /\ ci <= Len(listOfRepositoryFiles)
    /\ LET rf == listOfRepositoryFiles[ci]
           c == Classification(rf, files, dirs, denied)
       IN  IF ~HasValidPath(rf)
           THEN /\ ci' = ci + 1
                /\ UNCHANGED <<pc, directoriesToPrune, downloadFiles, out, handles>>
           ELSE /\ directoriesToPrune' =
                      IF stringInSlice(PruneDirOf(rf), directoriesToPrune)
                      THEN directoriesToPrune
                      ELSE Append(directoriesToPrune, PruneDirOf(rf))
                /\ out' = Append(out, StatusLine(rf.Name, c.text))
                /\ downloadFiles' = IF c.download THEN Append(downloadFiles, rf)
                                    ELSE downloadFiles
                /\ handles' = IF c.held THEN handles \cup {Handle("file", "classify", ci)}
                              ELSE handles
                /\ IF c.text = "(no return)"
                   THEN pc' = "hashing" /\ ci' = ci
                   ELSE pc' = pc /\ ci' = ci + 1
    /\ UNCHANGED <<run, directoryName, payload, downloadRoot, listOfRepositoryFiles,
                   downloadErrors, pi, di, walk, walkFailed, began, earlier,
                   newRepo, output>>
    /\ UNCHANGED fsVars
    /\ UNCHANGED hashVars
    /\ UNCHANGED <<variant, received>>

\* A slip: the download loop is entered straight after the first loop.
AfterClassifySkipsPrune == "download"

\* The phase that follows the first loop.
AfterClassify == "prune"

ClassifyDone ==
    /\ pc = "classify"
    /\ ci > Len(listOfRepositoryFiles)
    /\ pc' = AfterClassify
    /\ pi' = 1
    /\ di' = 1
    /\ walk' = <<>>
    /\ UNCHANGED <<run, directoryName, payload, downloadRoot, listOfRepositoryFiles,
                   downloadFiles, directoriesToPrune, downloadErrors, ci, walkFailed,
                   out, began, earlier, newRepo, output>>
    /\ UNCHANGED fsVars
    /\ UNCHANGED hashVars
    /\ UNCHANGED buildVars

\* The walk moves on to `rest`; with nothing left, filepath.Walk returns and
\* the loop over directoriesToPrune takes the next directory.
WalkOn(rest) ==
    /\ walk' = rest
    /\ pi' = IF rest = <<>> THEN pi + 1 ELSE pi

\* One iteration of the pruning loop up to the first file of the walk.
PruneDir ==
    /\ pc = "prune"
    /\ walk = <<>>
    /\ pi <= Len(directoriesToPrune)
    /\ LET pruneDir == directoriesToPrune[pi]
       IN  IF StatNotExist(pruneDir, files, dirs)
           THEN walk' = <<>> /\ pi' = pi + 1
           ELSE WalkOn(WalkFiles(pruneDir, files, dirs))
    /\ UNCHANGED <<pc, run, directoryName, payload, downloadRoot, listOfRepositoryFiles,
                   downloadFiles, directoriesToPrune, downloadErrors, ci, di,
                   walkFailed, out, began, earlier, newRepo, output>>
    /\ UNCHANGED fsVars
    /\ UNCHANGED hashVars
    /\ UNCHANGED buildVars

\* belongsToRepo: the walked path is the name of some entry, as a string.
BelongsToRepo(currentPathSlash, list) ==
    \E k \in 1..Len(list) : currentPathSlash = list[k].Name

\* What is left of the walk after os.RemoveAll failed: the callback returns
\* the error and filepath.Walk stops.
AfterRemoveError(rest) == <<>>

\* The callback of the pruning walk on one regular file.
PruneVisit ==
    /\ pc = "prune"
    /\ walk # <<>>
    /\ LET currentPathSlash == ToSlash(Head(walk))
       IN  IF BelongsToRepo(currentPathSlash, listOfRepositoryFiles)
           THEN /\ WalkOn(Tail(walk))
                /\ UNCHANGED <<files, walkFailed>>
           ELSE \/ /\ files' = Without(files, Target(currentPathSlash, files, dirs))
                   /\ WalkOn(Tail(walk))
                   /\ UNCHANGED walkFailed
                \/ /\ WalkOn(AfterRemoveError(Tail(walk)))
                   /\ walkFailed' = walkFailed \cup {currentPathSlash}
                   /\ UNCHANGED files
    /\ UNCHANGED <<pc, run, directoryName, payload, downloadRoot, listOfRepositoryFiles,
                   downloadFiles, directoriesToPrune, downloadErrors, ci, di,
                   out, began, earlier, newRepo, output>>
    /\ UNCHANGED <<dirs, denied>>
    /\ UNCHANGED hashVars
    /\ UNCHANGED buildVars

PruneDone ==
    /\ pc = "prune"
    /\ walk = <<>>
    /\ pi > Len(directoriesToPrune)
    /\ pc' = "download"
    /\ UNCHANGED <<run, directoryName, payload, downloadRoot, listOfRepositoryFiles,
                   downloadFiles, directoriesToPrune, downloadErrors, ci, pi, di, walk,
                   walkFailed, out, began, earlier, newRepo, output>>
    /\ UNCHANGED fsVars
    /\ UNCHANGED hashVars
    /\ UNCHANGED buildVars

\* os.MkdirAll(dir): what it leaves of the directories and whether it failed.
\* A regular file on the way is an error; so is, at the system's choice
\* (`refused`), the creation of a missing directory.
MkdirAll(dir, fs, ds, refused) ==
    LET need == Prefixes(AbsPath(dir))
    IN  IF need \cap DOMAIN fs # {} THEN [err |-> TRUE, dirs |-> ds]
        ELSE IF need \subseteq ds THEN [err |-> FALSE, dirs |-> ds]
        ELSE IF refused THEN [err |-> TRUE, dirs |-> ds]
        ELSE [err |-> FALSE, dirs |-> ds \cup need]

\* os.OpenFile(name, O_RDWR|O_CREATE|O_TRUNC) in main.go, without O_TRUNC in
\* part_000: the file is created, or emptied (main.go) or left with its bytes
\* (part_000), unless the path cannot be resolved, names a directory or a
\* file the process may not open, or the system refuses.
OpenFile(name, fs, ds, dn, refused) ==
    LET r == Resolve(name, fs, ds)
    IN  IF r.st # "ok" \/ r.path \in ds \/ r.path \in dn \/ refused
        THEN [err |-> TRUE, files |-> fs, path |-> r.path]
        ELSE IF variant = MainGo \/ r.path \notin DOMAIN fs
        THEN [err |-> FALSE, files |-> WithFile(fs, r.path, <<>>), path |-> r.path]
        ELSE [err |-> FALSE, files |-> fs, path |-> r.path]

\* reader.WriteTo(downloadTarget) on the file just opened: the bytes go to
\* offset 0 and what the file held beyond them stays.
WriteAt(old, bytes) ==
    bytes \o (IF Len(old) > Len(bytes) THEN SubSeq(old, Len(bytes) + 1, Len(old)) ELSE <<>>)

\* What the servers and the system may do to one download: the step that
\* fails (MkdirAll, http.Get, the status, OpenFile, reader.WriteTo, or none)
\* and the bytes of the answer.  A failed WriteTo has written the bytes that
\* came before the error: here, none.
Bodies == Contents

Fates ==
    {[fail |-> k, body |-> Content1] : k \in {"mkdir", "connection", "status", "open"}}
        \cup {[fail |-> k, body |-> b] : k \in {"write", "none"}, b \in Bodies}

\* A slip: a failure ends the loop (`break` or `return` for `continue`).
AfterFailureBreak(d) == Len(downloadFiles) + 1

\* The loop index after an iteration of the download loop that failed: every
\* failure ends in `continue` or falls through to the end of the body.
AfterFailure(d) == d + 1

\* A slip: the target is opened before the request is made, so that a failed
\* request leaves it created or emptied.
AfterTransportFailureOpened(fs, opened) == opened

\* The files after http.Get failed or answered with another status than 200:
\* the `continue` comes before os.OpenFile, nothing was opened.
AfterTransportFailure(fs, opened) == fs

\* One iteration of the download loop for entry rf under fate f: the files
\* and directories it leaves, what it adds to downloadErrors, what it prints
\* and the handles it leaves open.  main.go closes the target and the body at
\* the end of the body of the loop, which the `continue`s skip; part_000
\* defers the target's Close to the return of updateFiles and goes on to
\* CheckHash whatever WriteTo returned.
DownloadOne(rf, f, root, fs, ds, dn) ==
    LET made == MkdirAll(Dir(rf.Name), fs, ds, f.fail = "mkdir")
        got == IF root = NoRoot \/ f.fail = "connection" THEN "connectionError"
               ELSE IF f.fail = "status" THEN "status"
               ELSE "ok"
        target == OpenFile(rf.Name, fs, made.dirs, dn, f.fail = "open")
        bytes == IF f.fail = "write" THEN <<>> ELSE f.body
        stored == WithFile(target.files, target.path,
                           WriteAt(target.files[target.path], bytes))
        deferred == IF variant = MainGo THEN {} ELSE {"file"}
    IN  IF made.err
        THEN [files |-> fs, dirs |-> ds, errors |-> 1, held |-> {},
              text |-> "Unable to create directory"]
        ELSE IF got # "ok"
        THEN [files |-> AfterTransportFailure(fs, target.files), dirs |-> made.dirs,
              errors |-> 1, held |-> IF got = "status" THEN {"body"} ELSE {},
              text |-> got]
        ELSE IF target.err
        THEN [files |-> fs, dirs |-> made.dirs, errors |-> 1, held |-> {"body"},
              text |-> "openError"]
        ELSE IF f.fail = "write" /\ variant = MainGo
        THEN [files |-> stored, dirs |-> made.dirs, errors |-> 1, held |-> deferred,
              text |-> "writeError"]
        ELSE IF CheckHash(rf, stored[target.path])
        THEN [files |-> stored, dirs |-> made.dirs, errors |-> 0, held |-> deferred,
              text |-> "OK"]
        ELSE [files |-> stored, dirs |-> made.dirs, errors |-> 1, held |-> deferred,
              text |-> "Checksum failed"]

\* One iteration of "download files that are missing or failed checksum".
Download ==
    /\ pc = "download"
    /\ di <= Len(downloadFiles)
    /\ \E f \in Fates :
          LET rf == downloadFiles[di]
              done == DownloadOne(rf, f, downloadRoot, files, dirs, denied)
          IN  /\ files' = done.files
              /\ dirs' = done.dirs
              /\ downloadErrors' = downloadErrors + done.errors
              /\ out' = Append(out, DownloadLine(rf.Name, done.text))
              /\ di' = IF done.errors > 0 THEN AfterFailure(di) ELSE di + 1
              /\ handles' = handles \cup {Handle(k, "download", di) : k \in done.held}
              /\ received' = IF f.fail = "none" /\ done.text \in {"OK", "Checksum failed"}
                             THEN f.body ELSE Absent
    /\ UNCHANGED <<pc, run, directoryName, payload, downloadRoot, listOfRepositoryFiles,
                   downloadFiles, directoriesToPrune, ci, pi, walk, walkFailed,
                   began, earlier, newRepo, output>>
    /\ UNCHANGED denied
    /\ UNCHANGED hashVars
    /\ UNCHANGED variant

\* The end of updateFiles: "Completed with n errors" or "Done :-)", and the
\* return, at which the deferred Close calls of part_000 run.
DownloadDone ==
    /\ pc = "download"
    /\ di > Len(downloadFiles)
    /\ pc' = "done"
    /\ handles' = {h \in handles : h.kind # "file"}
    /\ UNCHANGED <<run, directoryName, payload, downloadRoot, listOfRepositoryFiles,
                   downloadFiles, directoriesToPrune, downloadErrors, ci, pi, di, walk,
                   walkFailed, out, began, earlier, newRepo, output>>
    /\ UNCHANGED fsVars
    /\ UNCHANGED hashVars
    /\ UNCHANGED <<variant, received>>

\* The updater is started a second time: same server, the tree as the first
\* run left it.
Rerun ==
    /\ pc = "done"
    /\ run = 1
    /\ Len(directoryName) = 0
    /\ run' = 2
    /\ pc' = "main"
    /\ earlier' = [errors |-> downloadErrors, walkFailed |-> walkFailed,
                   directoryName |-> EmptyStr]
    /\ began' = [files |-> files, dirs |-> dirs]
    /\ out' = <<>>
    /\ walkFailed' = {}
    /\ UNCHANGED <<directoryName, payload, downloadRoot, listOfRepositoryFiles,
                   downloadFiles, directoriesToPrune, downloadErrors, ci, pi, di, walk,
                   newRepo, output>>
    /\ UNCHANGED fsVars
    /\ UNCHANGED hashVars
    /\ handles' = {}
    /\ UNCHANGED <<variant, received>>

(***************************************************************************)
(* createRepo                                                              *)
(***************************************************************************)
\* A slip: the hash of an entry is taken before the file is read.
RepoEntryUnread(currentPath, content) == <<ToSlash(currentPath), calculateHash(<<>>)>>

\* The entry createRepo appends for the file the walk is on.
RepoEntry(currentPath, content) == <<ToSlash(currentPath), calculateHash(content)>>

\* createRepo up to the first file of its walk.  A root that os.Lstat cannot
\* find reaches the callback with a nil info, and info.IsDir() panics.
CreateRepoWalk ==
    /\ pc = "createRepo"
    /\ newRepo' = [DownloadRoot |-> RepoRoot, Files |-> <<>>]
    /\ IF StatNotExist(directoryName, files, dirs)
       THEN pc' = "panic" /\ walk' = <<>>
       ELSE pc' = "createWalk" /\ walk' = WalkFiles(directoryName, files, dirs)
    /\ UNCHANGED <<run, directoryName, payload, downloadRoot, listOfRepositoryFiles,
                   downloadFiles, directoriesToPrune, downloadErrors, ci, pi, di,
                   walkFailed, out, began, earlier, output>>
    /\ UNCHANGED fsVars
    /\ UNCHANGED hashVars
    /\ UNCHANGED buildVars

\* The callback of createRepo's walk on one regular file: a file that does
\* not open ends the walk, the others are hashed and listed.  main.go defers
\* the file's Close to the return of the callback, part_000 never closes it.
CreateVisit ==
    /\ pc = "createWalk"
    /\ walk # <<>>
    /\ LET currentPath == Head(walk)
           opened == OsOpen(currentPath, files, dirs, denied)
       IN  IF opened.st # "ok"
           THEN /\ walk' = <<>>
                /\ walkFailed' = walkFailed \cup {currentPath}
                /\ UNCHANGED <<newRepo, handles>>
           ELSE /\ walk' = Tail(walk)
                /\ newRepo' = [newRepo EXCEPT
                                 !.Files = Append(@, RepoEntry(currentPath, files[opened.path]))]
                /\ UNCHANGED walkFailed
                /\ handles' = IF variant = MainGo THEN handles
                              ELSE handles \cup
                                     {Handle("file", "createRepo", Len(newRepo.Files) + 1)}
    /\ UNCHANGED <<pc, run, directoryName, payload, downloadRoot, listOfRepositoryFiles,
                   downloadFiles, directoriesToPrune, downloadErrors, ci, pi, di,
                   out, began, earlier, output>>
    /\ UNCHANGED fsVars
    /\ UNCHANGED hashVars
    /\ UNCHANGED <<variant, received>>

\* After the walk, whatever it returned: the manifest is marshalled and
\* written to outputName (a file kept apart from the tree modelled here).
CreateWrite ==
    /\ pc = "createWalk"
    /\ walk = <<>>
    /\ output' = JsonMarshal(newRepo)
    /\ pc' = "done"
    /\ UNCHANGED <<run, directoryName, payload, downloadRoot, listOfRepositoryFiles,
                   downloadFiles, directoriesToPrune, downloadErrors, ci, pi, di, walk,
                   walkFailed, out, began, earlier, newRepo>>
    /\ UNCHANGED fsVars
    /\ UNCHANGED hashVars
    /\ UNCHANGED buildVars

\* The manifest createRepo wrote is put on the server and the updater is run
\* on the tree the manifest was made from.
Publish ==
    /\ pc = "done"
    /\ Len(directoryName) > 0
    /\ payload' = output
    /\ earlier' = [errors |-> -1, walkFailed |-> walkFailed, directoryName |-> directoryName]
    /\ directoryName' = EmptyStr
    /\ walkFailed' = {}
    /\ pc' = "main"
    /\ UNCHANGED <<run, downloadRoot, listOfRepositoryFiles, downloadFiles,
                   directoriesToPrune, downloadErrors, ci, pi, di, walk, out, began,
                   newRepo, output>>
    /\ UNCHANGED fsVars
    /\ UNCHANGED hashVars
    /\ handles' = {}
    /\ UNCHANGED <<variant, received>>

(***************************************************************************)
(* calculateHash, read by read                                             *)
(***************************************************************************)
vars == <<progVars, fsVars, hashVars, buildVars>>

\* The longest file hashed read by read.
MaxFileLen == 4

Bytes == {0, 1}

\* f.Read(data) with bytes left: some of them, at most len(data), arrive, and
\* the whole buffer is written to the hash.
HashRead ==
    /\ hpc = "loop"
    /\ hpos < Len(hfile)
    /\ \E n \in 1..Min(Len(hdata), Len(hfile) - hpos) :
          LET filled == ReadInto(hdata, hfile, hpos, n)
          IN  /\ hdata' = filled
              /\ hfed' = HashWrite(hfed, filled)
              /\ hpos' = hpos + n
    /\ UNCHANGED <<hfile, hpc>>
    /\ UNCHANGED <<progVars, fsVars>>
    /\ UNCHANGED buildVars

\* f.Read(data) at the end of the file: io.EOF, the loop ends.
HashEOF ==
    /\ hpc = "loop"
    /\ hpos = Len(hfile)
    /\ hpc' = "done"
    /\ UNCHANGED <<hfile, hpos, hdata, hfed>>
    /\ UNCHANGED <<progVars, fsVars>>
    /\ UNCHANGED buildVars

\* f.Read(data) on a directory, or on a file the device fails to read: no
\* byte and an error that is not io.EOF.  calculateHash tests for io.EOF
\* alone and does not leave the loop.
HashReadError ==
    /\ pc = "hashing"
    /\ hpc # "write"
    /\ hpc' = "write"
    /\ UNCHANGED <<hfile, hpos, hdata, hfed>>
    /\ UNCHANGED <<progVars, fsVars>>
    /\ UNCHANGED buildVars

\* hash.Write(data) after such a read: the buffer goes to the hash and the
\* loop goes round again.  The digest's input is followed up to MaxFileLen
\* bytes.
HashWriteAfterError ==
    /\ pc = "hashing"
    /\ hpc = "write"
    /\ hpc' = "loop"
    /\ hfed' = IF Len(hfed) < MaxFileLen THEN HashWrite(hfed, hdata) ELSE hfed
    /\ UNCHANGED <<hfile, hpos, hdata>>
    /\ UNCHANGED <<progVars, fsVars>>
    /\ UNCHANGED buildVars

(***************************************************************************)
(* Specifications                                                          *)
(***************************************************************************)
HashIdle ==
    /\ hfile = <<>>
    /\ hpos = 0
    /\ hdata = ZeroBuffer
    /\ hfed = <<>>
    /\ hpc = "idle"

\* The revision v starts with nothing open.
Build(v) ==
    /\ variant = v
    /\ handles = {}
    /\ received = Absent

ProgStart(dir, p, fs, dn) ==
    /\ pc = "main"
    /\ run = 1
    /\ directoryName = dir
    /\ payload = p
    /\ downloadRoot = NoRoot
    /\ listOfRepositoryFiles = <<>>
    /\ downloadFiles = <<>>
    /\ directoriesToPrune = <<>>
    /\ downloadErrors = 0
    /\ ci = 1
    /\ pi = 1
    /\ di = 1
    /\ walk = <<>>
    /\ walkFailed = {}
    /\ out = <<>>
    /\ files = fs
    /\ dirs = TreeDirs(fs)
    /\ denied = dn
    /\ began = [files |-> fs, dirs |-> TreeDirs(fs)]
    /\ earlier = NoEarlier
    /\ newRepo = [DownloadRoot |-> NoRoot, Files |-> <<>>]
    /\ output = NoOutput

\* The files the process may not open: none, or the file m/a.
DeniedChoices(fs) == {{}} \cup {{p} : p \in {PathA} \cap DOMAIN fs}

\* The updater, run once.
Init ==
    /\ \E p \in Manifests, t \in InitialTrees :
          \E dn \in DeniedChoices(TreeFiles(t)) : ProgStart(EmptyStr, p, TreeFiles(t), dn)
    /\ HashIdle
    /\ Build(MainGo)

Next ==
    \/ Main
    \/ GetRepositoryContent
    \/ Classify
    \/ ClassifyDone
    \/ PruneDir
    \/ PruneVisit
    \/ PruneDone
    \/ Download
    \/ DownloadDone

Spec == Init /\ [][Next]_vars

\* The updater, run twice in a row, on the manifests of at most one entry.
InitTwice ==
    /\ \E m \in SeqsUpTo(Entries, 1), t \in InitialTrees :
          \E dn \in DeniedChoices(TreeFiles(t)) :
              ProgStart(EmptyStr, ObjectPayload(RepoRoot, m), TreeFiles(t), dn)
    /\ HashIdle
    /\ Build(MainGo)

NextTwice == Next \/ Rerun

SpecTwice == InitTwice /\ [][NextTwice]_vars

\* The updater on a server that may send a payload that is no manifest.
InitFetch ==
    /\ \E p \in BadPayloads \cup {ObjectPayload(RepoRoot, m) : m \in SeqsUpTo(Entries, 1)},
          t \in InitialTrees :
          \E dn \in DeniedChoices(TreeFiles(t)) : ProgStart(EmptyStr, p, TreeFiles(t), dn)
    /\ HashIdle
    /\ Build(MainGo)

SpecFetch == InitFetch /\ [][Next]_vars

\* The updater on manifests that hold entries of one or three items.
MalformedEntries ==
    {<<NameO>>, <<NameB, calculateHash(Content1), calculateHash(Content1)>>}

ArityEntries ==
    {<<NameA, calculateHash(Content1)>>, <<NameDotA, calculateHash(Content2)>>}
        \cup MalformedEntries

InitArity ==
    /\ \E m \in SeqsUpTo(ArityEntries, MaxEntries), t \in InitialTrees :
          \E dn \in DeniedChoices(TreeFiles(t)) :
              ProgStart(EmptyStr, ObjectPayload(RepoRoot, m), TreeFiles(t), dn)
    /\ HashIdle
    /\ Build(MainGo)

SpecArity == InitArity /\ [][Next]_vars

\* The updater on manifests of at most one entry, which may name a
\* directory, every step taken in its turn: the program is sequential and
\* each call returns or fails.
NameM == <<"m">>

TermEntries ==
    {<<NameM, calculateHash(Content1)>>, <<NameA, calculateHash(Content1)>>,
     <<NameB, calculateHash(Content1)>>}

InitTerm ==
    /\ \E m \in SeqsUpTo(TermEntries, 1), t \in InitialTrees :
          \E dn \in DeniedChoices(TreeFiles(t)) :
              ProgStart(EmptyStr, ObjectPayload(RepoRoot, m), TreeFiles(t), dn)
    /\ HashIdle
    /\ Build(MainGo)

NextTerm == Next \/ HashReadError \/ HashWriteAfterError

\* Weak fairness of each step.  For the iterations of the three loops the
\* enabling condition is written out: the loop has entries left (and, for
\* the pruning loop, no walk is under way); each iteration moves its loop on.
ClassifyEnabled == pc = "classify" /\ ci <= Len(listOfRepositoryFiles)
PruneDirEnabled == pc = "prune" /\ walk = <<>> /\ pi <= Len(directoriesToPrune)
DownloadEnabled == pc = "download" /\ di <= Len(downloadFiles)

Fairness ==
    /\ WF_vars(Main)
    /\ WF_vars(GetRepositoryContent)
    /\ []<>(~ClassifyEnabled) \/ []<><<Classify>>_vars
    /\ WF_vars(ClassifyDone)
    /\ []<>(~PruneDirEnabled) \/ []<><<PruneDir>>_vars
    /\ WF_vars(PruneVisit)
    /\ WF_vars(PruneDone)
    /\ []<>(~DownloadEnabled) \/ []<><<Download>>_vars
    /\ WF_vars(DownloadDone)
    /\ WF_vars(HashReadError)
    /\ WF_vars(HashWriteAfterError)

SpecTerm == InitTerm /\ [][NextTerm]_vars /\ Fairness

\* The updater of part_000, on trees in which m/a may be longer than any
\* body a server sends.
ContentLong == <<2, 2>>

OlderTrees ==
    {t \in [{PathA, PathO, PathSibling} -> Contents \cup {ContentLong, Absent}] :
        /\ t[PathO] \in {Content1, Absent}
        /\ t[PathSibling] = Content1}

InitOlder ==
    /\ \E m \in SeqsUpTo(Entries, 1), t \in OlderTrees :
          \E dn \in DeniedChoices(TreeFiles(t)) :
              ProgStart(EmptyStr, ObjectPayload(RepoRoot, m), TreeFiles(t), dn)
    /\ HashIdle
    /\ Build(Part000)

SpecOlder == InitOlder /\ [][Next]_vars

\* The updater in either revision.
SpecBoth == (Init \/ InitOlder) /\ [][Next]_vars

\* createRepo on a directory, then the updater on the manifest it wrote.
PathX == <<<<"w">>, <<"m">>, <<"X">>>>
PathV == <<<<"v">>, <<"x">>>>

RepoTrees ==
    {t \in [{PathA, PathB, PathX, PathV} -> Contents \cup {Absent}] :
        /\ t[PathB] # Content2
        /\ t[PathX] # Content2
        /\ t[PathV] = Content1}

DirectoryNames == {<<"m">>, <<".">>, <<".", ".", "/", "v">>, <<"/", "w", "/", "m">>}

InitRoundTrip ==
    /\ \E d \in DirectoryNames, t \in RepoTrees :
          \E dn \in DeniedChoices(TreeFiles(t)) :
              ProgStart(d, ObjectPayload(RepoRoot, <<>>), TreeFiles(t), dn)
    /\ HashIdle
    /\ Build(MainGo)

NextRoundTrip == Next \/ CreateRepoWalk \/ CreateVisit \/ CreateWrite \/ Publish

SpecRoundTrip == InitRoundTrip /\ [][NextRoundTrip]_vars

\* calculateHash on one file.
FilesUpTo(n) == UNION {[1..k -> Bytes] : k \in 0..n}

InitHash ==
    /\ ProgStart(EmptyStr, ObjectPayload(RepoRoot, <<>>), <<>>, {})
    /\ hfile \in FilesUpTo(MaxFileLen)
    /\ hpos = 0
    /\ hdata = ZeroBuffer
    /\ hfed = <<>>
    /\ hpc = "loop"
    /\ Build(MainGo)

NextHash == HashRead \/ HashEOF

SpecHash == InitHash /\ [][NextHash]_vars

(***************************************************************************)
(* Properties                                                              *)
(***************************************************************************)
\* An absolute path in the tree of the working directory, the directory
\* itself included; and strictly below it.
InTree(p) == IsPrefix(CwdPath, p)
StrictlyInside(p) == InTree(p) /\ p # CwdPath

\* The name of a file, directory or manifest entry resolves to this path.
ResolvedPath(name) == AbsPath(name)

\* The pruning phase has just ended: nothing was downloaded yet.
PruningEnded == pc = "download" /\ di = 1

\* The lines of the download loop printed so far.
DownloadLines == SelectSeq(out, LAMBDA l : l.line = "download")
StatusLines == SelectSeq(out, LAMBDA l : l.line = "status")

\* C1: in a run of updateFiles every deletion, directory creation and file
\* write is at a path in the tree of the working directory: outside it the
\* files, their bytes and the directories are what they were when the run
\* began.
C1_OutsideUntouched ==
    \A p \in DOMAIN files \cup DOMAIN began.files \cup dirs \cup began.dirs :
        ~InTree(p) =>
            /\ (p \in DOMAIN files) = (p \in DOMAIN began.files)
            /\ (p \in DOMAIN files => files[p] = began.files[p])
            /\ (p \in dirs) = (p \in began.dirs)

\* C2: for every entry the first loop has checked, HasValidPath was true
\* exactly when the entry's path resolves strictly inside the working
\* directory; and an entry it was false of is not opened (no status line),
\* not listed for download and adds no directory to directoriesToPrune.
C2_ValidIffInside ==
    \A k \in 1..Len(listOfRepositoryFiles) :
        LET rf == listOfRepositoryFiles[k]
        IN  k < ci =>
              /\ HasValidPath(rf) = StrictlyInside(ResolvedPath(rf.Name))
              /\ ~HasValidPath(rf) =>
                    /\ \A d \in 1..Len(downloadFiles) : downloadFiles[d].Name # rf.Name
                    /\ \A l \in 1..Len(out) : out[l].name # rf.Name
                    /\ (\A j \in 1..Len(listOfRepositoryFiles) :
                           HasValidPath(listOfRepositoryFiles[j]) =>
                              PruneDirOf(listOfRepositoryFiles[j]) # PruneDirOf(rf))
                          => ~stringInSlice(PruneDirOf(rf), directoriesToPrune)

\* C3: when calculateHash leaves its loop, the bytes it gave to the digest
\* are the bytes of the file, in order, none lost, repeated or added.
C3_FedIsFileBytes == hpc = "done" => hfed = hfile

\* C4: a file is deleted only in the pruning phase, after the first loop has
\* classified every entry and while nothing has been downloaded; and the
\* download loop acts (a "Downloading" line, a directory made, a file
\* written) only after the pruning loop has taken every directory of
\* directoriesToPrune, which no longer changes once pruning began.
C4_ClassifyPruneDownloadOrder ==
    [][/\ (\E p \in DOMAIN files : p \notin DOMAIN files') =>
             /\ pc = "prune"
             /\ ci > Len(listOfRepositoryFiles)
             /\ DownloadLines = <<>>
             /\ dirs = began.dirs
       /\ (out' # out /\ out'[Len(out')].line = "download") \/ dirs' # dirs
            \/ (\E p \in DOMAIN files' : p \notin DOMAIN files \/ files'[p] # files[p]) =>
             /\ pc = "download"
             /\ ci > Len(listOfRepositoryFiles)
             /\ pi > Len(directoriesToPrune)
             /\ walk = <<>>
       /\ pc \in {"prune", "download"} =>
             /\ directoriesToPrune' = directoriesToPrune
             /\ listOfRepositoryFiles' = listOfRepositoryFiles
             /\ downloadFiles' = downloadFiles
      ]_vars

\* A run that pruned a file and later downloaded one has ended.
C4_Witness ==
    /\ pc = "done"
    /\ \E p \in DOMAIN began.files : p \notin DOMAIN files
    /\ \E l \in 1..Len(out) : out[l].line = "download" /\ out[l].text = "OK"

\* C5: when the pruning phase ends, every file that was at the path of a
\* valid entry when the run began is still there with the same bytes.
C5_PruneKeepsManifestFiles ==
    PruningEnded =>
        \A k \in 1..Len(listOfRepositoryFiles) :
            LET rf == listOfRepositoryFiles[k]
                was == Resolve(rf.Name, began.files, began.dirs)
            IN  HasValidPath(rf) /\ was.st = "ok" /\ was.path \in DOMAIN began.files =>
                    /\ was.path \in DOMAIN files
                    /\ files[was.path] = began.files[was.path]

\* C6: when the pruning phase ends, every regular file left under a
\* directory of directoriesToPrune has the name of a manifest entry, or is a
\* file the removal of which failed.
C6_NoOrphanLeft ==
    PruningEnded =>
        \A d \in 1..Len(directoriesToPrune) :
            LET left == WalkFiles(directoriesToPrune[d], files, dirs)
            IN  \A k \in 1..Len(left) :
                    \/ BelongsToRepo(ToSlash(left[k]), listOfRepositoryFiles)
                    \/ ToSlash(left[k]) \in walkFailed

\* C7: when the run ends, the "Downloading" lines name the entries of
\* downloadFiles, each once and in their order, whatever became of each.
C7_EveryDownloadAttempted ==
    /\ pc = "download" => Len(DownloadLines) = di - 1
    /\ pc = "done" =>
          /\ Len(DownloadLines) = Len(downloadFiles)
          /\ \A k \in 1..Len(downloadFiles) : DownloadLines[k].name = downloadFiles[k].Name

\* A run has ended whose first download failed and whose second was made.
C7_Witness ==
    /\ pc = "done"
    /\ Len(downloadFiles) >= 2
    /\ Len(DownloadLines) >= 2
    /\ DownloadLines[1].text # "OK"
    /\ DownloadLines[2].name = downloadFiles[2].Name

\* C8: a second run that follows a first run without a failed download or
\* removal lists nothing for download and deletes no file.
C8_SecondRunDoesNothing ==
    run = 2 /\ earlier.errors = 0 /\ earlier.walkFailed = {} /\ pc \in {"prune", "download", "done"} =>
        /\ downloadFiles = <<>>
        /\ \A p \in DOMAIN began.files : p \in DOMAIN files

\* The updater has classified the entries of the manifest createRepo wrote.
RoundTripClassified ==
    /\ Len(earlier.directoryName) > 0
    /\ pc \in {"prune", "download", "done"}

AllMatch ==
    /\ downloadFiles = <<>>
    /\ Len(StatusLines) = Len(listOfRepositoryFiles)
    /\ \A k \in 1..Len(listOfRepositoryFiles) :
          /\ StatusLines[k].name = listOfRepositoryFiles[k].Name
          /\ StatusLines[k].text = "OK"

\* C9 as stated: the manifest createRepo makes of any directory, reconciled
\* against the same tree, has every entry classified OK and nothing listed
\* for download.
C9_RoundTripAllMatch == RoundTripClassified => AllMatch

\* The directory given to createRepo is in the tree of the working directory
\* and the paths createRepo listed are valid UTF-8.
InsideAndUtf8 ==
    /\ InTree(ResolvedPath(earlier.directoryName))
    /\ \A k \in 1..Len(newRepo.Files) :
          \A c \in 1..Len(newRepo.Files[k][1]) : newRepo.Files[k][1][c] # "X"

\* C9, amended: the manifest createRepo makes of a directory inside the
\* working directory whose file paths are valid UTF-8, reconciled against the
\* same tree, has every entry classified OK and nothing listed for download.
C9_RoundTripInsideMatches == RoundTripClassified /\ InsideAndUtf8 => AllMatch

\* Such a round trip over a manifest of two entries has been classified.
C9_Witness ==
    /\ RoundTripClassified
    /\ InsideAndUtf8
    /\ Len(listOfRepositoryFiles) >= 2
    /\ StatusLines[2].text = "OK"

\* The payload is not a manifest: not JSON, not an object, or an object whose
\* DownloadRoot is not a string.
NotAManifest == payload.kind # "object" \/ ~payload.rootIsString

\* C10: a run whose manifest could not be fetched or is not a manifest
\* changes nothing: the files, their bytes and the directories are what they
\* were when the run began.
C10_BadManifestNoMutation ==
    pc = "returned" \/ NotAManifest => files = began.files /\ dirs = began.dirs

\* createRepo has run to its end.
CreateRepoEnded == pc = "done" /\ Len(directoryName) > 0

\* C11: when createRepo could not open a file under the root, it ends
\* without having written a manifest to the output.
C11_NoPartialManifest ==
    CreateRepoEnded /\ walkFailed # {} => output = NoOutput

\* The download loop has just ended an iteration in which the request was
\* answered with status 200 and a body that was written to the target.
BodyStored == pc = "download" /\ di > 1 /\ received # Absent

\* The entry of that iteration, and the file its name resolves to.
LastDownloaded == downloadFiles[di - 1]
LastTarget == Resolve(LastDownloaded.Name, files, dirs).path

\* The first loop found the entry's local file with other bytes.
WasStale(rf) ==
    \E k \in 1..Len(StatusLines) :
        StatusLines[k].name = rf.Name /\ StatusLines[k].text = "Download (Changed)"

\* C12: after a download with status 200 for an entry that was stale, the
\* file at the entry's path holds exactly the body; and when the body hashes
\* to the entry's hash, the line printed for the download is OK.
C12_StaleReplacedByBody ==
    BodyStored /\ WasStale(LastDownloaded) =>
        /\ LastTarget \in DOMAIN files
        /\ files[LastTarget] = received
        /\ calculateHash(received) = LastDownloaded.Hash =>
              DownloadLines[di - 1].text = "OK"

\* This step is an iteration of the download loop that got status 200 and
\* wrote the body to the target.
StoresBody == pc = "download" /\ Len(out') = Len(out) + 1 /\ received' # Absent

\* C13: an iteration of the download loop that wrote a body to the target
\* leaves the file there, the body's bytes at its start; and when the hash
\* of the file is not the entry's, it prints "Checksum failed", adds exactly
\* one to downloadErrors and moves on to the next entry.
C13_ChecksumFailureCounted ==
    [][StoresBody =>
          LET rf == downloadFiles[di]
              target == Resolve(rf.Name, files', dirs').path
          IN  /\ target \in DOMAIN files'
              /\ Len(files'[target]) >= Len(received')
              /\ SubSeq(files'[target], 1, Len(received')) = received'
              /\ calculateHash(files'[target]) # rf.Hash =>
                    /\ out'[Len(out')] = DownloadLine(rf.Name, "Checksum failed")
                    /\ downloadErrors' = downloadErrors + 1
                    /\ di' = di + 1
                    /\ pc' = "download"
      ]_vars

\* A download failed its verification, its file stayed, and the next entry
\* was downloaded.
C13_Witness ==
    /\ pc = "done"
    /\ Len(DownloadLines) = 2
    /\ DownloadLines[1].text = "Checksum failed"
    /\ DownloadLines[2].text = "OK"
    /\ downloadErrors = 1
    /\ Resolve(downloadFiles[1].Name, files, dirs).path \in DOMAIN files
    /\ ~CheckHash(downloadFiles[1], files[Resolve(downloadFiles[1].Name, files, dirs).path])

\* This step is an iteration of the download loop in which http.Get failed
\* or the status was not 200.
TransportFails ==
    /\ pc = "download"
    /\ Len(out') = Len(out) + 1
    /\ out'[Len(out')].text \in {"connectionError", "status"}

\* C14: an iteration of the download loop that ends in a transport failure
\* adds one to downloadErrors and leaves every file as it was: no file is
\* created, emptied or written.
C14_TransportFailureWritesNothing ==
    [][TransportFails => files' = files /\ downloadErrors' = downloadErrors + 1]_vars

\* The download of a stale entry was answered with another status than 200
\* and its file still holds the bytes it had.
C14_Witness ==
    /\ pc = "download"
    /\ di > 1
    /\ DownloadLines[di - 1].text = "status"
    /\ WasStale(LastDownloaded)
    /\ LastTarget \in DOMAIN files
    /\ files[LastTarget] = began.files[LastTarget]
    /\ downloadErrors = 1

\* The entries of the payload that have two items, as repository files, and
\* those of them whose path is valid.
Kept ==
    LET two == SelectSeq(payload.Files, LAMBDA e : Len(e) = 2)
    IN  [k \in 1..Len(two) |-> [Name |-> two[k][1], Hash |-> two[k][2]]]
ValidKept == SelectSeq(Kept, LAMBDA rf : HasValidPath(rf))

\* The first loop has ended.
ClassifyEnded == pc \in {"prune", "download", "done"}

\* C15: the entries that have not two items are left out and the run is the
\* run on the others alone: the status lines are those of the valid entries
\* of two items, in order, each with the status its local file gives it,
\* downloadFiles are those of them to download, and directoriesToPrune
\* holds their first segments and no other.  The run that got the payload
\* ends before its first loop only when no entry has two items.
C15_MalformedEntrySkipped ==
    /\ pc = "returned" /\ downloadRoot = RepoRoot => Kept = <<>>
    /\ ClassifyEnded =>
        /\ listOfRepositoryFiles = Kept
        /\ Len(StatusLines) = Len(ValidKept)
        /\ \A k \in 1..Len(ValidKept) :
              StatusLines[k] =
                  StatusLine(ValidKept[k].Name,
                             Classification(ValidKept[k], began.files, began.dirs, denied).text)
        /\ downloadFiles =
              SelectSeq(ValidKept,
                        LAMBDA rf : Classification(rf, began.files, began.dirs, denied).download)
        /\ {directoriesToPrune[k] : k \in 1..Len(directoriesToPrune)}
              = {PruneDirOf(ValidKept[k]) : k \in 1..Len(ValidKept)}

\* A manifest whose first entry has three items and whose second has two
\* was classified.
C15_Witness ==
    /\ ClassifyEnded
    /\ Len(payload.Files) = 2
    /\ Len(payload.Files[1]) = 3
    /\ Len(payload.Files[2]) = 2
    /\ Len(StatusLines) = 1

\* The entries of the manifest whose path is valid.
ValidEntries == SelectSeq(listOfRepositoryFiles, LAMBDA rf : HasValidPath(rf))

\* The local file of an entry was not found, or was opened and has another
\* hash than the entry's, when the run began.
MissingOrStale(rf) ==
    LET opened == OsOpen(rf.Name, began.files, began.dirs, denied)
    IN  \/ opened.st = "noent"
        \/ opened.st = "ok" /\ calculateHash(began.files[opened.path]) # rf.Hash

\* C16: after the first loop downloadFiles is the sequence, in the order of
\* the manifest, of the valid entries whose local file is missing or stale;
\* an entry whose file matches or does not open for another reason than not
\* being found is not in it.
C16_DownloadSetIsMissingOrStale ==
    ClassifyEnded => downloadFiles = SelectSeq(ValidEntries, MissingOrStale)

\* The managed top-level directories: the directories right below the
\* working directory that the first segment of a valid entry names.
ManagedTopLevel ==
    {d \in {AbsPath(PruneDirOf(ValidEntries[k])) : k \in 1..Len(ValidEntries)} :
        InTree(d) /\ Len(d) = Len(CwdPath) + 1}

UnderManaged(p) == \E d \in ManagedTopLevel : IsPrefix(d, p) /\ p # d

\* C17: while and after pruning runs, no directory was deleted, every file
\* that is gone was under a managed top-level directory, and so is every
\* file the walk is about to visit.
C17_PruneTouchesManagedOnly ==
    pc = "prune" \/ PruningEnded =>
        /\ began.dirs \subseteq dirs
        /\ \A p \in DOMAIN began.files : p \notin DOMAIN files => UnderManaged(p)
        /\ \A k \in 1..Len(walk) : UnderManaged(Resolve(walk[k], files, dirs).path)

\* The handles that an iteration of the first loop or of the download loop
\* opened and that are still open.
LoopHandles == {h \in handles : h.loop \in {"classify", "download"}}

\* C18: at the start of every iteration of the first loop and of the
\* download loop, and when the run has ended, no file and no response body
\* that an iteration of these loops opened is open.
C18_NoHandleAcrossIterations ==
    pc \in {"classify", "prune", "download", "done"} => LoopHandles = {}

\* The downloads that failed and the entries the first loop skipped because
\* their file did not open.
FailedDownloads == SelectSeq(DownloadLines, LAMBDA l : l.text # "OK")
SkippedEntries == SelectSeq(StatusLines, LAMBDA l : l.text = "Skip")

\* C19: the count the run ends with is the number of downloads that failed
\* plus the number of entries skipped because their local file did not open.
C19_ErrorCountCoversSkips ==
    pc = "done" => downloadErrors = Len(FailedDownloads) + Len(SkippedEntries)

\* The run has reached its final message, or returned for want of a
\* manifest.
RunEnded == pc \in {"done", "returned"}

\* C20: every run of the updater ends.
C20_RunTerminates == <>RunEnded

====
